---- MODULE Spec2Model ----
(***************************************************************************)
(* log.io server: Wire Parser, Input Registry and Message Router           *)
(* (server/src/logger.ts).                                                 *)
(*                                                                         *)
(* Text is modelled as a sequence of characters.  The alphabet is a small  *)
(* set of symbols: the two separators NUL ("\0") and BAR ("|"), the blank  *)
(* SP, and a handful of symbols that each stand for a separator-free word  *)
(* ("+msg", "app", ...).  split/slice/filter/join work on that sequence    *)
(* symbol by symbol, exactly as the JavaScript string methods work on      *)
(* characters.                                                             *)
(*                                                                         *)
(* Node runs every callback to completion, and no handler of this file     *)
(* contains an await before its last emit, so each callback is one action. *)
(***************************************************************************)
EXTENDS Integers, Sequences, FiniteSets, TLC

\* -------------------------------------------------------------- alphabet
NUL == "\\0"
BAR == "|"
SP  == " "

\* The value of a destructured array element that does not exist.  It is a
\* text of one reserved symbol, which no wire text contains.
UNDEF == <<"undefined">>

\* ------------------------------------------------------------ bounds
\* Terminated segments a TCP peer may have in flight in one chunk.
MaxSegs == 2

\* ------------------------------------------------- JavaScript primitives
\* String.prototype.split(sep): the pieces between the separators; a text
\* without separator is one piece, the empty text is one empty piece.
RECURSIVE Split(_, _)
Split(s, sep) ==
  IF \E i \in 1..Len(s) : s[i] = sep
  THEN LET i == CHOOSE k \in 1..Len(s) :
                  /\ s[k] = sep
                  /\ \A j \in 1..(k - 1) : s[j] # sep
       IN  <<SubSeq(s, 1, i - 1)>> \o Split(SubSeq(s, i + 1, Len(s)), sep)
  ELSE <<s>>

\* Array.prototype.slice(0, -1): all but the last element.
SliceDropLast(a) == SubSeq(a, 1, Len(a) - 1)

\* Array.prototype.slice(from): the elements from index `from` (0-based) on.
SliceFrom(a, from) == SubSeq(a, from + 1, Len(a))

\* Array.prototype.join(sep).
RECURSIVE Join(_, _)
Join(a, sep) ==
  IF Len(a) = 0 THEN <<>>
  ELSE IF Len(a) = 1 THEN a[1]
  ELSE a[1] \o <<sep>> \o Join(Tail(a), sep)

\* String.prototype.trim(): leading and trailing white space removed.
RECURSIVE Trim(_)
Trim(s) ==
  IF Len(s) = 0 THEN s
  ELSE IF s[1] = SP THEN Trim(Tail(s))
  ELSE IF s[Len(s)] = SP THEN Trim(SubSeq(s, 1, Len(s) - 1))
  ELSE s

\* Array destructuring  const [a, b, c] = parts.slice(0, 3): element i
\* (1-based here), undefined when the array is shorter.
Element(parts, i) == IF i <= Len(parts) THEN parts[i] ELSE UNDEF

\* ------------------------------------------------------------ universe
Viewer == {"v1", "v2"}

VARIABLES
  inputs,      \* the Input Registry: the Inputs, in registration order
  connected,   \* the viewers (socket.io sockets) connected now
  rooms,       \* rooms[v]: the channel names viewer v has joined
  listening,   \* the TCP server's listening callback has run
  wire,        \* bytes a TCP peer has written and 'data' has not delivered
  syslogSeen,  \* history: a syslog record has been routed
  inbox,       \* inbox[v]: the events viewer v received in the last step
  logged,      \* logger.error entries written in the last step
  lastChunk,   \* the buffer the last step gave broadcastMessage, or NoChunk
  dispatched,  \* the msgParts the last step's forEach callback ran on
  newViewer,   \* the viewer the last step's connection callback ran for
  announced,   \* history: the registration events broadcast so far
  emitted,     \* the emit calls of the last step's handlers, in call order,
               \* each with whether the registry held the event's pair then
  learned      \* history: learned[v], the pairs viewer v's events told it of

vars == <<inputs, connected, rooms, listening, wire, syslogSeen,
          inbox, logged, lastChunk, dispatched, newViewer, announced,
          emitted, learned>>

NoChunk == <<"(none)">>
NoViewer == "-"
NoInbox == [v \in Viewer |-> <<>>]

\* ------------------------------------------------------- Input Registry
\* channelId of a pair: the join of stream and source (an absent field
\* prints as "undefined").
channelName(stream, source) == stream \o <<BAR>> \o source

HasInput(reg, stream, source) ==
  \E i \in 1..Len(reg) : reg[i].stream = stream /\ reg[i].source = source

\* add(stream, source): store the Input when the pair is unseen; the
\* registry after the call.  The call returns channelName(stream, source).
RegistryAdd(reg, stream, source) ==
  IF HasInput(reg, stream, source) THEN reg
  ELSE Append(reg, [inputName |-> channelName(stream, source),
                    stream |-> stream, source |-> source])

\* remove(stream, source): delete the Input of the pair when present; the
\* registry after the call.  The call returns channelName(stream, source).
IsOther(stream, source, input) ==
  ~(input.stream = stream /\ input.source = source)

RegistryRemove(reg, stream, source) ==
  LET Keep(input) == IsOther(stream, source, input)
  IN  SelectSeq(reg, Keep)

\* getInputs(): the Inputs, in registration order.
getInputs(reg) == reg

\* -------------------------------------------------------- Broadcast Sink
\* io.emit(name, payload): one event to every connected socket.
EmitToAll(out, ev) ==
  [v \in Viewer |-> IF v \in connected THEN Append(out[v], ev) ELSE out[v]]

\* io.to(room).emit(name, payload): one event to every connected socket
\* that has joined the room.
EmitToRoom(out, room, ev) ==
  [v \in Viewer |->
     IF v \in connected /\ room \in rooms[v] THEN Append(out[v], ev)
     ELSE out[v]]

\* ------------------------------------------------------ Message Router
\* A world is what one run of broadcastMessage reads and writes: the
\* registry, the events emitted so far, the log, the segments seen, and
\* (history) the registration events broadcast and the emit calls made.
World(reg) ==
  [inputs |-> reg, out |-> NoInbox, log |-> <<>>, seen |-> <<>>, regs |-> {},
   sent |-> <<>>]

\* An emit call as a handler makes it: the event goes out, and (history)
\* the call is recorded with the registry's word on the event's pair at
\* that moment.
Call(w, ev) ==
  Append(w.sent, [event |-> ev,
                  held |-> HasInput(w.inputs, ev.stream, ev.source)])

\* io.emit(name, payload) in a handler.
ioEmit(w, ev) ==
  [w EXCEPT !.out = EmitToAll(w.out, ev), !.sent = Call(w, ev)]

\* io.to(room).emit(name, payload) in a handler.
ioToEmit(w, room, ev) ==
  [w EXCEPT !.out = EmitToRoom(w.out, room, ev), !.sent = Call(w, ev)]

\* Mutant: the Input is stored without asking the registry for the pair.
handleNewMessageStoreAgain(w, msgParts) ==
  LET mtype     == Element(msgParts, 1)
      stream    == Element(msgParts, 2)
      source    == Element(msgParts, 3)
      msg       == Join(SliceFrom(msgParts, 3), BAR)
      inputName == channelName(stream, source)
      added     == [w EXCEPT !.inputs =
                      Append(@, [inputName |-> inputName,
                                 stream |-> stream, source |-> source])]
      toRoom    == ioToEmit(added, inputName,
                     [type |-> mtype, inputName |-> inputName, msg |-> msg,
                      stream |-> stream, source |-> source])
      toAll     == ioEmit(toRoom,
                     [type |-> <<"+ping">>, inputName |-> inputName,
                      stream |-> stream, source |-> source])
  IN  toAll

\* Mutant: the message goes to the room named by the stream alone.
handleNewMessageRoomByStream(w, msgParts) ==
  LET mtype     == Element(msgParts, 1)
      stream    == Element(msgParts, 2)
      source    == Element(msgParts, 3)
      msg       == Join(SliceFrom(msgParts, 3), BAR)
      added     == [w EXCEPT !.inputs = RegistryAdd(w.inputs, stream, source)]
      inputName == channelName(stream, source)
      toRoom    == ioToEmit(added, stream,
                     [type |-> mtype, inputName |-> inputName, msg |-> msg,
                      stream |-> stream, source |-> source])
      toAll     == ioEmit(toRoom,
                     [type |-> <<"+ping">>, inputName |-> inputName,
                      stream |-> stream, source |-> source])
  IN  toAll

\* Mutant: the payload is the fourth field alone.
handleNewMessageFirstField(w, msgParts) ==
  LET mtype     == Element(msgParts, 1)
      stream    == Element(msgParts, 2)
      source    == Element(msgParts, 3)
      msg       == IF Len(msgParts) >= 4 THEN msgParts[4] ELSE <<>>
      added     == [w EXCEPT !.inputs = RegistryAdd(w.inputs, stream, source)]
      inputName == channelName(stream, source)
      toRoom    == ioToEmit(added, inputName,
                     [type |-> mtype, inputName |-> inputName, msg |-> msg,
                      stream |-> stream, source |-> source])
      toAll     == ioEmit(toRoom,
                     [type |-> <<"+ping">>, inputName |-> inputName,
                      stream |-> stream, source |-> source])
  IN  toAll

\* Mutant: the message goes to every socket, not to the channel's room.
handleNewMessageToAll(w, msgParts) ==
  LET mtype     == Element(msgParts, 1)
      stream    == Element(msgParts, 2)
      source    == Element(msgParts, 3)
      msg       == Join(SliceFrom(msgParts, 3), BAR)
      added     == [w EXCEPT !.inputs = RegistryAdd(w.inputs, stream, source)]
      inputName == channelName(stream, source)
      toRoom    == ioEmit(added,
                     [type |-> mtype, inputName |-> inputName, msg |-> msg,
                      stream |-> stream, source |-> source])
      toAll     == ioEmit(toRoom,
                     [type |-> <<"+ping">>, inputName |-> inputName,
                      stream |-> stream, source |-> source])
  IN  toAll

\* Mutant: the ping goes to the channel's room only.
handleNewMessagePingRoom(w, msgParts) ==
  LET mtype     == Element(msgParts, 1)
      stream    == Element(msgParts, 2)
      source    == Element(msgParts, 3)
      msg       == Join(SliceFrom(msgParts, 3), BAR)
      added     == [w EXCEPT !.inputs = RegistryAdd(w.inputs, stream, source)]
      inputName == channelName(stream, source)
      toRoom    == ioToEmit(added, inputName,
                     [type |-> mtype, inputName |-> inputName, msg |-> msg,
                      stream |-> stream, source |-> source])
      toAll     == ioToEmit(toRoom, inputName,
                     [type |-> <<"+ping">>, inputName |-> inputName,
                      stream |-> stream, source |-> source])
  IN  toAll

\* '+msg': add the pair, send the message to the channel's room and a
\* '+ping' to every socket.
handleNewMessage(w, msgParts) ==
  LET mtype     == Element(msgParts, 1)
      stream    == Element(msgParts, 2)
      source    == Element(msgParts, 3)
      msg       == Join(SliceFrom(msgParts, 3), BAR)
      added     == [w EXCEPT !.inputs = RegistryAdd(w.inputs, stream, source)]
      inputName == channelName(stream, source)
      toRoom    == ioToEmit(added, inputName,
                     [type |-> mtype, inputName |-> inputName, msg |-> msg,
                      stream |-> stream, source |-> source])
      toAll     == ioEmit(toRoom,
                     [type |-> <<"+ping">>, inputName |-> inputName,
                      stream |-> stream, source |-> source])
  IN  toAll

\* Mutant: the event names the channel by the stream alone.
handleRegisterInputByStream(w, msgParts) ==
  LET mtype     == Element(msgParts, 1)
      stream    == Element(msgParts, 2)
      source    == Element(msgParts, 3)
      added     == [w EXCEPT !.inputs = RegistryAdd(w.inputs, stream, source)]
      inputName == stream
      event     == [type |-> mtype, stream |-> stream,
                    source |-> source, inputName |-> inputName]
  IN  [ioEmit(added, event) EXCEPT !.regs = @ \cup {event}]

\* '+input': add the pair and tell every socket.
handleRegisterInput(w, msgParts) ==
  LET mtype     == Element(msgParts, 1)
      stream    == Element(msgParts, 2)
      source    == Element(msgParts, 3)
      added     == [w EXCEPT !.inputs = RegistryAdd(w.inputs, stream, source)]
      inputName == channelName(stream, source)
      event     == [type |-> mtype, stream |-> stream,
                    source |-> source, inputName |-> inputName]
  IN  [ioEmit(added, event) EXCEPT !.regs = @ \cup {event}]

\* Mutant: the event names the channel by the stream alone.
handleDeregisterInputByStream(w, msgParts) ==
  LET mtype     == Element(msgParts, 1)
      stream    == Element(msgParts, 2)
      source    == Element(msgParts, 3)
      removed   == [w EXCEPT !.inputs = RegistryRemove(w.inputs, stream, source)]
      inputName == stream
  IN  ioEmit(removed, [type |-> mtype, stream |-> stream,
                       source |-> source, inputName |-> inputName])

\* Mutant: the event goes to the channel's room only.
handleDeregisterInputToRoom(w, msgParts) ==
  LET mtype     == Element(msgParts, 1)
      stream    == Element(msgParts, 2)
      source    == Element(msgParts, 3)
      removed   == [w EXCEPT !.inputs = RegistryRemove(w.inputs, stream, source)]
      inputName == channelName(stream, source)
  IN  ioToEmit(removed, inputName,
               [type |-> mtype, stream |-> stream,
                source |-> source, inputName |-> inputName])

\* Mutant: the event is broadcast before the Input is removed.
handleDeregisterInputEmitFirst(w, msgParts) ==
  LET mtype     == Element(msgParts, 1)
      stream    == Element(msgParts, 2)
      source    == Element(msgParts, 3)
      inputName == channelName(stream, source)
      sent      == ioEmit(w, [type |-> mtype, stream |-> stream,
                              source |-> source, inputName |-> inputName])
  IN  [sent EXCEPT !.inputs = RegistryRemove(w.inputs, stream, source)]

\* Mutant: the event is broadcast only when an Input was removed.
handleDeregisterInputIfHeld(w, msgParts) ==
  LET mtype     == Element(msgParts, 1)
      stream    == Element(msgParts, 2)
      source    == Element(msgParts, 3)
      removed   == [w EXCEPT !.inputs = RegistryRemove(w.inputs, stream, source)]
      inputName == channelName(stream, source)
  IN  IF HasInput(w.inputs, stream, source)
      THEN ioEmit(removed, [type |-> mtype, stream |-> stream,
                            source |-> source, inputName |-> inputName])
      ELSE removed

\* '-input': remove the pair and tell every socket.
handleDeregisterInput(w, msgParts) ==
  LET mtype     == Element(msgParts, 1)
      stream    == Element(msgParts, 2)
      source    == Element(msgParts, 3)
      removed   == [w EXCEPT !.inputs = RegistryRemove(w.inputs, stream, source)]
      inputName == channelName(stream, source)
  IN  ioEmit(removed, [type |-> mtype, stream |-> stream,
                       source |-> source, inputName |-> inputName])

\* messageHandlers[tag]: a property read on an object literal.  The three
\* own properties are the handlers; a name the literal inherits from
\* Object.prototype ("constructor") reads as that inherited function, which
\* is truthy and callable and does nothing here; any other name reads as
\* undefined.
messageHandlers(tag) ==
  CASE tag = <<"+msg">>        -> "handleNewMessage"
    [] tag = <<"+input">>      -> "handleRegisterInput"
    [] tag = <<"-input">>      -> "handleDeregisterInput"
    [] tag = <<"constructor">> -> "Object"
    [] OTHER                   -> "undefined"

\* Mutant: a message of unknown type also removes the pair it names.
OnMessageUnknownRemoves(w, msg) ==
  LET msgParts       == Split(msg, BAR)
      messageHandler == messageHandlers(msgParts[1])
      w1             == [w EXCEPT !.seen = Append(@, msgParts)]
  IN  CASE messageHandler = "handleNewMessage"      -> handleNewMessage(w1, msgParts)
        [] messageHandler = "handleRegisterInput"   -> handleRegisterInput(w1, msgParts)
        [] messageHandler = "handleDeregisterInput" -> handleDeregisterInput(w1, msgParts)
        [] messageHandler = "Object"                -> w1
        [] OTHER -> [w1 EXCEPT !.log = Append(@, msgParts[1]),
                               !.inputs = RegistryRemove(@, Element(msgParts, 2),
                                                         Element(msgParts, 3))]

\* The forEach callback of broadcastMessage, on one message.
OnMessage(w, msg) ==
  LET msgParts       == Split(msg, BAR)
      messageHandler == messageHandlers(msgParts[1])
      w1             == [w EXCEPT !.seen = Append(@, msgParts)]
  IN  CASE messageHandler = "handleNewMessage"      -> handleNewMessage(w1, msgParts)
        [] messageHandler = "handleRegisterInput"   -> handleRegisterInput(w1, msgParts)
        [] messageHandler = "handleDeregisterInput" -> handleDeregisterInput(w1, msgParts)
        [] messageHandler = "Object"                -> w1
        [] OTHER -> [w1 EXCEPT !.log = Append(@, msgParts[1])]

\* Mutant: only the empty text is dropped.
IsMessageNotEmpty(msg) == msg # <<>>

\* data.toString().split('\0').slice(0, -1).filter((msg) => !!msg.trim())
IsMessage(msg) == Trim(msg) # <<>>

\* Mutant: the last piece is kept.
MessagesKeepTail(data) == SelectSeq(Split(data, NUL), IsMessage)

Messages(data) == SelectSeq(SliceDropLast(Split(data, NUL)), IsMessage)

\* msgs.forEach(callback): the callbacks run one after the other, each to
\* its end (no handler suspends before its last emit).
\* Mutant: a loop that an unknown tag ends.
RECURSIVE ForEachUntilUnknown(_, _)
ForEachUntilUnknown(w, msgs) ==
  IF msgs = <<>> THEN w
  ELSE IF messageHandlers(Split(msgs[1], BAR)[1]) = "undefined"
       THEN OnMessage(w, msgs[1])
       ELSE ForEachUntilUnknown(OnMessage(w, msgs[1]), Tail(msgs))

\* Mutant: the callbacks run last message first.
RECURSIVE ForEachBackwards(_, _)
ForEachBackwards(w, msgs) ==
  IF msgs = <<>> THEN w
  ELSE OnMessage(ForEachBackwards(w, Tail(msgs)), msgs[1])

\* The callbacks in array order, each on the world the one before left.
RECURSIVE ForEach(_, _)
ForEach(w, msgs) ==
  IF msgs = <<>> THEN w ELSE ForEach(OnMessage(w, msgs[1]), Tail(msgs))

broadcastMessage(reg, data) == ForEach(World(reg), Messages(data))

\* ------------------------------------------------------------ inputs
\* Segments a TCP peer writes.  Well-formed ones, for two pairs:
MsgH1   == <<"+msg", BAR, "app", BAR, "h1", BAR, "x", BAR, "y">>
MsgH2   == <<"+msg", BAR, "app", BAR, "h2", BAR, "x">>
AddH1   == <<"+input", BAR, "app", BAR, "h1">>
DelH1   == <<"-input", BAR, "app", BAR, "h1">>
\* and ill-formed ones: unknown tags, too few fields, blank.
Bogus   == <<"bogus", BAR, "app", BAR, "h1", BAR, "x">>
Ctor    == <<"constructor", BAR, "app", BAR, "h1">>
AddApp  == <<"+input", BAR, "app">>
Blank   == <<SP>>
Empty   == <<>>

WellFormed == {MsgH1, MsgH2, AddH1, DelH1}
AnySegment == {MsgH1, AddH1, DelH1, Bogus, Ctor, AddApp, Blank, Empty}

\* Channel names a viewer may ask to join or leave.
RoomName == {channelName(<<"app">>, <<"h1">>), channelName(<<"app">>, <<"h2">>)}

\* Message texts of syslog records.
SyslogText == {<<"x">>, <<"x", BAR, "y">>}

SyslogStartup == <<"+input", BAR, "syslog", BAR, "localhost", NUL>>
SyslogFrame(text) ==
  <<"+msg", BAR, "syslog", BAR, "localhost", BAR>> \o text \o <<NUL>>

\* ------------------------------------------------------------ viewers
\* What a viewer knows of the Inputs after reading its events in order: an
\* '+input' or '+ping' event tells it of the event's pair, a '-input' event
\* makes it forget the pair.
RECURSIVE Learn(_, _)
Learn(known, events) ==
  IF events = <<>> THEN known
  ELSE LET e == events[1]
           p == <<e.stream, e.source>>
       IN  Learn(IF e.type \in {<<"+input">>, <<"+ping">>} THEN known \cup {p}
                 ELSE IF e.type = <<"-input">> THEN known \ {p}
                 ELSE known,
                 Tail(events))

\* ------------------------------------------------------------- actions
Init ==
  /\ inputs = <<>>
  /\ connected = {}
  /\ rooms = [v \in Viewer |-> {}]
  /\ listening = FALSE
  /\ wire = <<>>
  /\ syslogSeen = FALSE
  /\ inbox = NoInbox
  /\ logged = <<>>
  /\ lastChunk = NoChunk
  /\ dispatched = <<>>
  /\ newViewer = NoViewer
  /\ announced = {}
  /\ emitted = <<>>
  /\ learned = [v \in Viewer |-> {}]

\* One run of broadcastMessage on `data`.
Route(data) ==
  LET w == broadcastMessage(inputs, data)
  IN  /\ inputs' = w.inputs
      /\ inbox' = w.out
      /\ logged' = w.log
      /\ dispatched' = w.seen
      /\ lastChunk' = data
      /\ newViewer' = NoViewer
      /\ announced' = announced \cup w.regs
      /\ emitted' = w.sent
      /\ learned' = [v \in Viewer |-> Learn(learned[v], w.out[v])]

\* A step that runs no broadcastMessage.
Quiet(v) ==
  /\ logged' = <<>>
  /\ dispatched' = <<>>
  /\ lastChunk' = NoChunk
  /\ newViewer' = v
  /\ emitted' = <<>>
  /\ UNCHANGED announced

NulCount(s) == Cardinality({i \in 1..Len(s) : s[i] = NUL})

\* A TCP peer writes a segment, with or without its terminator.  Nothing of
\* the server runs; the bytes wait for the next 'data' event.
ClientWrite(seg, terminated) ==
  /\ listening
  /\ IF wire = <<>> THEN TRUE ELSE wire[Len(wire)] = NUL
  /\ NulCount(wire) < MaxSegs
  /\ terminated \/ seg # <<>>
  /\ wire' = wire \o seg \o (IF terminated THEN <<NUL>> ELSE <<>>)
  /\ inbox' = NoInbox
  /\ Quiet(NoViewer)
  /\ UNCHANGED <<inputs, connected, rooms, listening, syslogSeen, learned>>

\* socket.on('data'): the bytes in flight arrive as one buffer.
OnSocketData ==
  /\ wire # <<>>
  /\ Route(wire)
  /\ wire' = <<>>
  /\ UNCHANGED <<connected, rooms, listening, syslogSeen>>

\* The callback of messageServer.listen.
OnListening ==
  /\ ~listening
  /\ listening' = TRUE
  /\ Route(SyslogStartup)
  /\ UNCHANGED <<connected, rooms, wire, syslogSeen>>

\* syslogServer.on('message').
OnSyslogMessage(text) ==
  /\ syslogSeen' = TRUE
  /\ Route(SyslogFrame(text))
  /\ UNCHANGED <<connected, rooms, listening, wire>>

\* What a new socket is sent: one '+input' per Input of getInputs().
\* Mutant: the loop ends after the first Input.
ReplayFirst(list) ==
  IF list = <<>> THEN <<>>
  ELSE <<[type |-> <<"+input">>, inputName |-> list[1].inputName,
          stream |-> list[1].stream, source |-> list[1].source]>>

RECURSIVE Replay(_)
Replay(list) ==
  IF list = <<>> THEN <<>>
  ELSE <<[type |-> <<"+input">>, inputName |-> list[1].inputName,
          stream |-> list[1].stream, source |-> list[1].source]>>
       \o Replay(Tail(list))

\* io.on('connection').
OnConnection(v) ==
  /\ v \notin connected
  /\ connected' = connected \cup {v}
  /\ inbox' = [NoInbox EXCEPT ![v] = Replay(getInputs(inputs))]
  /\ learned' = [learned EXCEPT ![v] = Learn({}, Replay(getInputs(inputs)))]
  /\ Quiet(v)
  /\ UNCHANGED <<inputs, rooms, listening, wire, syslogSeen>>

\* socket.on('+activate').
OnActivate(v, inputName) ==
  /\ v \in connected
  /\ rooms' = [rooms EXCEPT ![v] = @ \cup {inputName}]
  /\ inbox' = NoInbox
  /\ Quiet(NoViewer)
  /\ UNCHANGED <<inputs, connected, listening, wire, syslogSeen, learned>>

\* socket.on('-activate').
OnDeactivate(v, inputName) ==
  /\ v \in connected
  /\ rooms' = [rooms EXCEPT ![v] = @ \ {inputName}]
  /\ inbox' = NoInbox
  /\ Quiet(NoViewer)
  /\ UNCHANGED <<inputs, connected, listening, wire, syslogSeen, learned>>

\* The viewer's socket closes: it leaves every room, and the viewer is
\* gone with what it knew.
OnDisconnect(v) ==
  /\ v \in connected
  /\ connected' = connected \ {v}
  /\ rooms' = [rooms EXCEPT ![v] = {}]
  /\ learned' = [learned EXCEPT ![v] = {}]
  /\ inbox' = NoInbox
  /\ Quiet(NoViewer)
  /\ UNCHANGED <<inputs, listening, wire, syslogSeen>>

\* A TCP peer ends its connection.  The server has put no 'end' or 'close'
\* listener on the socket: nothing of it runs.
OnSocketClose ==
  /\ listening
  /\ inbox' = NoInbox
  /\ Quiet(NoViewer)
  /\ UNCHANGED <<inputs, connected, rooms, listening, wire, syslogSeen,
                 learned>>

\* ------------------------------------------------------ specifications
\* Well-formed producers, and viewers coming and going.
Next ==
  \/ OnListening
  \/ \E seg \in WellFormed : ClientWrite(seg, TRUE)
  \/ OnSocketData
  \/ \E v \in Viewer : OnConnection(v)
  \/ \E v \in Viewer, n \in RoomName : OnActivate(v, n)
  \/ \E v \in Viewer, n \in RoomName : OnDeactivate(v, n)
  \/ \E v \in Viewer : OnDisconnect(v)

Spec == Init /\ [][Next]_vars

\* Producers that also send ill-formed segments and unterminated tails, and
\* end their connections, to one viewer that comes and goes and joins and
\* leaves a channel.
Watcher == "v1"
Watched == channelName(<<"app">>, <<"h1">>)

NextWire ==
  \/ OnListening
  \/ \E seg \in AnySegment, t \in BOOLEAN : ClientWrite(seg, t)
  \/ OnSocketData
  \/ OnSocketClose
  \/ OnConnection(Watcher)
  \/ OnActivate(Watcher, Watched)
  \/ OnDeactivate(Watcher, Watched)
  \/ OnDisconnect(Watcher)

SpecWire == Init /\ [][NextWire]_vars

\* Startup and the syslog feed, with viewers that may join its channel and
\* a TCP peer that deregisters the syslog pair.
SyslogRoom == channelName(<<"syslog">>, <<"localhost">>)

DelSyslog == <<"-input", BAR, "syslog", BAR, "localhost">>
MsgSyslog == <<"+msg", BAR, "syslog", BAR, "localhost", BAR, "x">>

SyslogPeer == {DelSyslog, MsgSyslog, MsgH1}

NextSyslog ==
  \/ OnListening
  \/ \E seg \in SyslogPeer : ClientWrite(seg, TRUE)
  \/ OnSocketData
  \/ \E text \in SyslogText : OnSyslogMessage(text)
  \/ \E v \in Viewer : OnConnection(v)
  \/ \E v \in Viewer : OnActivate(v, SyslogRoom)
  \/ \E v \in Viewer : OnDeactivate(v, SyslogRoom)
  \/ \E v \in Viewer : OnDisconnect(v)

SpecSyslog == Init /\ [][NextSyslog]_vars

\* ------------------------------------------------ reading the raw text
\* The claims are stated on the raw chunk, read by position, not on what
\* the router's own split produced.
\* The pieces of s between occurrences of ch, found by reading s once from
\* the left: `done` holds the finished pieces, `cur` the one being read.
RECURSIVE Scan(_, _, _, _)
Scan(s, ch, done, cur) ==
  IF s = <<>> THEN Append(done, cur)
  ELSE IF s[1] = ch THEN Scan(Tail(s), ch, Append(done, cur), <<>>)
  ELSE Scan(Tail(s), ch, done, Append(cur, s[1]))

Pieces(s, ch) == Scan(s, ch, <<>>, <<>>)

NonBlank(seg) == \E i \in 1..Len(seg) : seg[i] # SP

\* The terminated segments of a chunk, the text after its last terminator,
\* and the chunk without that text.
Terminated(data) ==
  LET ps == Pieces(data, NUL) IN SubSeq(ps, 1, Len(ps) - 1)
TailOf(data) ==
  LET ps == Pieces(data, NUL) IN ps[Len(ps)]
CutTail(data) == SubSeq(data, 1, Len(data) - Len(TailOf(data)))

\* The terminated segments that are not blank.
Segs(data) == SelectSeq(Terminated(data), NonBlank)

Fields(seg) == Pieces(seg, BAR)
FieldCount(seg) == Len(Fields(seg))
Field(seg, k) ==
  LET fs == Fields(seg) IN IF k <= Len(fs) THEN fs[k] ELSE UNDEF
Tag(seg) == Field(seg, 1)
\* The text after the n-th field separator (empty when there is none).
RECURSIVE After(_, _)
After(s, n) ==
  IF n = 0 THEN s
  ELSE IF s = <<>> THEN <<>>
  ELSE After(Tail(s), IF s[1] = BAR THEN n - 1 ELSE n)
Payload(seg) == After(seg, 3)
PairOf(seg) == <<Field(seg, 2), Field(seg, 3)>>
ChannelOf(seg) == channelName(Field(seg, 2), Field(seg, 3))

Known == {<<"+msg">>, <<"+input">>, <<"-input">>}
IsKnown(seg) == Tag(seg) \in Known
IsUnknown(seg) == Tag(seg) \notin Known
IsValid(seg) == IsKnown(seg) /\ FieldCount(seg) >= 3
IsShort(seg) == IsKnown(seg) /\ FieldCount(seg) < 3
IsNewMessage(seg) == Tag(seg) = <<"+msg">>
IsDeregister(seg) == Tag(seg) = <<"-input">>

Routed == lastChunk # NoChunk

RECURSIVE Flatten(_)
Flatten(ss) == IF ss = <<>> THEN <<>> ELSE ss[1] \o Flatten(Tail(ss))

IsMsgEvent(e) == e.type = <<"+msg">>
IsPingEvent(e) == e.type = <<"+ping">>
IsRegEvent(e) == e.type = <<"+input">>
IsDeregEvent(e) == e.type = <<"-input">>

\* ---------------------------------------------------------------- C1
Outcome(w) == <<w.inputs, w.out, w.log>>

\* One step, seen from the chunk: the callback ran on the non-blank
\* terminated segments, and nothing else had an effect.
C1_Step ==
  Routed' =>
    /\ dispatched' = [k \in 1..Len(Segs(lastChunk')) |->
                        Fields(Segs(lastChunk')[k])]
    /\ <<inputs', inbox', logged'>> =
         Outcome(ForEach(World(inputs), Segs(lastChunk')))

\* C1: the text after the last terminator of a chunk is never dispatched.
\* Every run of broadcastMessage hands the forEach callback exactly the
\* non-blank terminated segments of its chunk, field by field, and leaves
\* the registry, every viewer's events and the log as the callbacks on
\* those segments alone leave them; so the tail has no effect in that run,
\* and none in a later one, whose effect again depends on its own chunk
\* alone.
C1_TailNeverDispatched == [][C1_Step]_vars

\* A chunk  m1 \0 m2  whose tail m2 is a complete, well-formed message has
\* been routed: one segment was dispatched.
C1_Witness ==
  /\ Routed
  /\ TailOf(lastChunk) \in {MsgH1, AddH1, DelH1}
  /\ Len(Terminated(lastChunk)) = 1
  /\ Len(dispatched) = 1
  /\ connected # {}

\* ---------------------------------------------------------------- C2
NewMessagesFor(v) ==
  LET Mine(seg) == IsNewMessage(seg) /\ ChannelOf(seg) \in rooms[v]
  IN  SelectSeq(Segs(lastChunk), Mine)

\* C2: the message events a viewer receives carry, in order, exactly the
\* text after the third separator of each terminated +msg segment for a
\* channel it has joined: separators inside the payload are kept.
C2_PayloadVerbatim ==
  Routed =>
    \A v \in connected :
      LET events == SelectSeq(inbox[v], IsMsgEvent)
          segs   == NewMessagesFor(v)
      IN  [k \in 1..Len(events) |-> events[k].msg]
            = [k \in 1..Len(segs) |-> Payload(segs[k])]

\* A viewer has received a message whose payload holds a separator.
C2_Witness ==
  /\ Routed
  /\ \E v \in connected : \E k \in 1..Len(inbox[v]) :
       /\ IsMsgEvent(inbox[v][k])
       /\ \E i \in 1..Len(inbox[v][k].msg) : inbox[v][k].msg[i] = BAR

\* ---------------------------------------------------------------- C3
Count(seq, Test(_)) == Len(SelectSeq(seq, Test))

ChannelsOf(data) == {ChannelOf(Segs(data)[k]) : k \in 1..Len(Segs(data))}

\* C3: for every channel, a viewer that is connected and has joined it
\* receives one message event per dispatched +msg of that channel, and
\* every other viewer receives none.
C3_FanOut ==
  Routed =>
    \A v \in Viewer : \A ch \in RoomName \cup ChannelsOf(lastChunk) :
      LET Event(e) == IsMsgEvent(e) /\ e.inputName = ch
          Sent(seg) == IsNewMessage(seg) /\ ChannelOf(seg) = ch
      IN  Count(inbox[v], Event)
            = IF v \in connected /\ ch \in rooms[v]
              THEN Count(Segs(lastChunk), Sent) ELSE 0

\* Two connected viewers, one joined to the channel of a routed +msg and
\* one joined to another channel only: the first received the message.
C3_Witness ==
  /\ Routed
  /\ \E v, u \in connected : \E ch \in ChannelsOf(lastChunk) :
       /\ ch \in rooms[v]
       /\ ch \notin rooms[u] /\ rooms[u] # {}
       /\ \E k \in 1..Len(inbox[v]) :
            IsMsgEvent(inbox[v][k]) /\ inbox[v][k].inputName = ch

\* ---------------------------------------------------------------- C4
PingOf(seg) ==
  [type |-> <<"+ping">>, inputName |-> ChannelOf(seg),
   stream |-> Field(seg, 2), source |-> Field(seg, 3)]

\* C4: the '+ping' events a connected viewer receives are, in order, one
\* per dispatched +msg, each with the message's stream, source and channel
\* and nothing else; a viewer that is not connected receives none.
C4_PingToAll ==
  Routed =>
    \A v \in Viewer :
      LET sent == SelectSeq(Segs(lastChunk), IsNewMessage)
      IN  SelectSeq(inbox[v], IsPingEvent)
            = IF v \in connected
              THEN [k \in 1..Len(sent) |-> PingOf(sent[k])] ELSE <<>>

\* A connected viewer that has joined nothing received a ping, while
\* another viewer received the message itself.
C4_Witness ==
  /\ Routed
  /\ \E v, u \in connected :
       /\ rooms[v] = {}
       /\ \E k \in 1..Len(inbox[v]) : IsPingEvent(inbox[v][k])
       /\ \E k \in 1..Len(inbox[u]) : IsMsgEvent(inbox[u][k])

\* ---------------------------------------------------------------- C5
\* The last segment of the chunk whose tag is known and whose pair is p.
LastAbout(data, p) ==
  LET About(seg) == IsKnown(seg) /\ PairOf(seg) = p
      segs == SelectSeq(Segs(data), About)
  IN  segs[Len(segs)]

\* C5: for every dispatched -input of a pair, each connected viewer
\* receives one deregistration event of that pair per dispatched -input,
\* carrying the channelId that every registration event broadcast for the
\* pair carried; and when the -input is the chunk's last word on the pair,
\* the registry no longer holds it.
C5_Deregistration ==
  Routed =>
    \A i \in 1..Len(Segs(lastChunk)) :
      LET seg == Segs(lastChunk)[i]
          p   == PairOf(seg)
          Gone(e) == IsDeregEvent(e) /\ e.stream = p[1] /\ e.source = p[2]
          Sent(s) == IsDeregister(s) /\ PairOf(s) = p
      IN  IsDeregister(seg) =>
            /\ IsDeregister(LastAbout(lastChunk, p))
                 => ~HasInput(inputs, p[1], p[2])
            /\ \A v \in connected :
                 /\ Count(inbox[v], Gone) = Count(Segs(lastChunk), Sent)
                 /\ \A k \in 1..Len(inbox[v]) : \A a \in announced :
                      (Gone(inbox[v][k]) /\ a.stream = p[1] /\ a.source = p[2])
                        => inbox[v][k].inputName = a.inputName

\* A pair was registered by a +input in an earlier chunk, and a chunk
\* holding only its -input has now been routed to two viewers.
C5_Witness ==
  /\ Routed
  /\ lastChunk = DelH1 \o <<NUL>>
  /\ \E a \in announced : a.stream = <<"app">> /\ a.source = <<"h1">>
  /\ connected = Viewer
  /\ \A v \in Viewer : Len(inbox[v]) = 1

\* ---------------------------------------------------------------- C6
C6_Step ==
  (Routed' /\ \A k \in 1..Len(Segs(lastChunk')) : IsUnknown(Segs(lastChunk')[k]))
    => /\ inputs' = inputs
       /\ inbox' = NoInbox
       /\ Len(logged') = Len(Segs(lastChunk'))

\* C6: a chunk whose segments all carry a tag other than '+msg', '+input'
\* and '-input' leaves the registry unchanged, emits no event to any
\* viewer, and writes exactly one log entry per segment.
C6_UnknownTagLogged == [][C6_Step]_vars

\* ---------------------------------------------------------------- C7
C7_Step ==
  (Routed' /\ \A k \in 1..Len(Segs(lastChunk')) : IsShort(Segs(lastChunk')[k]))
    => /\ inputs' = inputs
       /\ inbox' = NoInbox

\* C7: a chunk whose segments all carry a known tag and fewer than three
\* fields is skipped: the registry is unchanged and no event is emitted.
C7_ShortSegmentSkipped == [][C7_Step]_vars

\* ---------------------------------------------------------------- C8
RegEventOf(seg) ==
  [type |-> Tag(seg), stream |-> Field(seg, 2), source |-> Field(seg, 3),
   inputName |-> ChannelOf(seg)]

MsgEventOf(seg) ==
  [type |-> Tag(seg), inputName |-> ChannelOf(seg), msg |-> Payload(seg),
   stream |-> Field(seg, 2), source |-> Field(seg, 3)]

\* The events a valid segment owes viewer v.
Owed(v, seg) ==
  IF IsNewMessage(seg)
  THEN (IF ChannelOf(seg) \in rooms[v] THEN <<MsgEventOf(seg)>> ELSE <<>>)
       \o <<PingOf(seg)>>
  ELSE <<RegEventOf(seg)>>

\* Events of a segment with at least three fields name a source.
HasSource(e) == e.source # UNDEF

LastValidAbout(data, p) ==
  LET About(seg) == IsValid(seg) /\ PairOf(seg) = p
      segs == SelectSeq(Segs(data), About)
  IN  segs[Len(segs)]

\* C8: whatever unknown-tag or short segments a chunk holds, in any
\* place, each connected viewer receives for the valid segments exactly
\* the events they owe it, in chunk order, and the registry holds the pair
\* of a valid segment exactly when the chunk's last valid segment on that
\* pair is not a -input.
C8_SiblingsUnaffected ==
  Routed =>
    LET valid == SelectSeq(Segs(lastChunk), IsValid)
    IN  /\ \A v \in connected :
             SelectSeq(inbox[v], HasSource)
               = Flatten([k \in 1..Len(valid) |-> Owed(v, valid[k])])
        /\ \A k \in 1..Len(valid) :
             LET p == PairOf(valid[k])
             IN  HasInput(inputs, p[1], p[2])
                   <=> ~IsDeregister(LastValidAbout(lastChunk, p))

\* A chunk whose first segment is unknown or short and whose second is
\* valid has been routed, and a viewer received the valid one's event.
C8_Witness ==
  /\ Routed
  /\ Len(Segs(lastChunk)) = 2
  /\ ~IsValid(Segs(lastChunk)[1])
  /\ IsValid(Segs(lastChunk)[2])
  /\ \E v \in connected : \E k \in 1..Len(inbox[v]) : HasSource(inbox[v][k])

\* ---------------------------------------------------------------- C9
\* C9: no syslog message is routed before the startup frame has
\* registered the syslog pair.
C9_StartupFrameFirst == syslogSeen => listening

\* --------------------------------------------------------------- C10
\* C10: a viewer that has just connected has received '+input' events
\* only, one for each Input of the registry, carrying that Input, and none
\* for a pair the registry does not hold.
C10_ReplayOnConnect ==
  newViewer # NoViewer =>
    LET events == inbox[newViewer]
    IN  /\ \A k \in 1..Len(events) :
             /\ IsRegEvent(events[k])
             /\ HasInput(inputs, events[k].stream, events[k].source)
        /\ \A i \in 1..Len(inputs) :
             LET Same(e) == /\ e.stream = inputs[i].stream
                            /\ e.source = inputs[i].source
                            /\ e.inputName = inputs[i].inputName
             IN  Count(events, Same) = 1
        /\ Len(events) = Len(inputs)

\* A viewer has connected while the registry held two Inputs and a pair
\* that was registered earlier had been removed again.
C10_Witness ==
  /\ newViewer # NoViewer
  /\ Len(inputs) >= 2
  /\ ~HasInput(inputs, <<"app">>, <<"h1">>)
  /\ \E a \in announced : a.stream = <<"app">> /\ a.source = <<"h1">>

\* --------------------------------------------------------------- C11
\* C11: whatever chunks the TCP peers and the syslog adapter have had
\* routed, in whatever order, no two Inputs of the registry have the same
\* stream and the same source.
C11_OnePerPair ==
  \A i, j \in 1..Len(inputs) :
    (inputs[i].stream = inputs[j].stream /\ inputs[i].source = inputs[j].source)
      => i = j

\* The syslog pair has been added by the startup frame and by a syslog
\* record, and a TCP chunk that adds it twice more has just been routed,
\* next to an Input of another pair.
C11_Witness ==
  /\ listening /\ syslogSeen
  /\ Routed
  /\ lastChunk = MsgSyslog \o <<NUL>> \o MsgSyslog \o <<NUL>>
  /\ Len(inputs) = 2
  /\ HasInput(inputs, <<"syslog">>, <<"localhost">>)

\* --------------------------------------------------------------- C12
IsAdd(seg) == Tag(seg) \in {<<"+msg">>, <<"+input">>}
IsAddEvent(e) == e.type \in {<<"+msg">>, <<"+ping">>, <<"+input">>}

\* The Inputs the registry lists for pair p.
InputsOf(reg, p) ==
  LET Mine(input) == input.stream = p[1] /\ input.source = p[2]
  IN  SelectSeq(reg, Mine)

\* The channelIds the handlers of the last chunk were given for pair p when
\* they added it: the names their events carry.
AddNames(p) ==
  {emitted[k].event.inputName : k \in
     {n \in 1..Len(emitted) :
        /\ IsAddEvent(emitted[n].event)
        /\ <<emitted[n].event.stream, emitted[n].event.source>> = p}}

\* C12: when a chunk adds a pair twice, by +msg or by +input, with no
\* -input of the pair in between, both adds give the same channelId, and
\* if no -input of the pair follows, the registry lists exactly one Input
\* for the pair, under that channelId; and when a chunk adds a pair the
\* registry still holds from an earlier add, the registry lists one Input
\* for it, under the channelId the new add gives.
C12_AddIdempotent ==
  Routed =>
    LET segs == Segs(lastChunk)
    IN  /\ \A i, j \in 1..Len(segs) :
             LET p == PairOf(segs[i])
             IN  ( /\ i < j
                   /\ IsAdd(segs[i]) /\ IsAdd(segs[j])
                   /\ PairOf(segs[j]) = p
                   /\ \A k \in i..j :
                        ~(IsDeregister(segs[k]) /\ PairOf(segs[k]) = p) )
                 => /\ Cardinality(AddNames(p)) = 1
                    /\ ~IsDeregister(LastAbout(lastChunk, p))
                         => /\ Len(InputsOf(inputs, p)) = 1
                            /\ InputsOf(inputs, p)[1].inputName \in AddNames(p)
        /\ \A k \in 1..Len(emitted) :
             LET e == emitted[k].event
                 p == <<e.stream, e.source>>
             IN  (IsAddEvent(e) /\ HasInput(inputs, p[1], p[2]))
                   => /\ Len(InputsOf(inputs, p)) = 1
                      /\ InputsOf(inputs, p)[1].inputName = e.inputName

\* A pair that an earlier +input had announced has just been added twice
\* more by one chunk, once by +input and once by +msg, and a viewer saw
\* the events of both.
C12_Witness ==
  /\ Routed
  /\ lastChunk = AddH1 \o <<NUL>> \o MsgH1 \o <<NUL>>
  /\ \E a \in announced : a.stream = <<"app">> /\ a.source = <<"h1">>
  /\ Len(InputsOf(inputs, <<<<"app">>, <<"h1">>>>)) = 1
  /\ \E v \in connected : Len(inbox[v]) >= 2

\* --------------------------------------------------------------- C13
\* The channelId add would give the pair of a segment, in registry reg:
\* the name of the Input the registry lists for the pair after add.
NameAddGives(reg, seg) ==
  LET p == PairOf(seg)
  IN  InputsOf(RegistryAdd(reg, p[1], p[2]), p)[1].inputName

C13_Step ==
  LET segs == Segs(lastChunk')
      Named(input) == \E k \in 1..Len(segs) :
                        PairOf(segs[k]) = <<input.stream, input.source>>
      Other(input) == ~Named(input)
  IN  (Routed' /\ \A k \in 1..Len(segs) : IsDeregister(segs[k]))
        => /\ inputs' = SelectSeq(inputs, Other)
           /\ (\A i \in 1..Len(inputs) : Other(inputs[i])) => inputs' = inputs
           /\ logged' = <<>>
           /\ \A v \in Viewer :
                inbox'[v] =
                  IF v \in connected
                  THEN [k \in 1..Len(segs) |->
                          [type |-> <<"-input">>,
                           stream |-> PairOf(segs[k])[1],
                           source |-> PairOf(segs[k])[2],
                           inputName |-> NameAddGives(inputs, segs[k])]]
                  ELSE <<>>

\* C13: a chunk of -input segments removes the Inputs of the pairs it
\* names and no other, so a -input for a pair the registry does not hold
\* at its turn (never added, or removed by an earlier segment) leaves the
\* registry as it was; the chunk writes nothing to the error log, and
\* sends every connected viewer one '-input' event per segment, held pair
\* or not, carrying the pair and the channelId add would give that pair.
C13_UnknownRemoval == [][C13_Step]_vars

\* Two -input segments of one pair were routed in one chunk, so the second
\* found the pair absent; the registry holds other Inputs, and both
\* viewers received both events.
C13_Witness ==
  /\ Routed
  /\ lastChunk = DelH1 \o <<NUL>> \o DelH1 \o <<NUL>>
  /\ Len(inputs) >= 2
  /\ connected = Viewer
  /\ \A v \in Viewer : Len(inbox[v]) = 2

\* --------------------------------------------------------------- C14
C14_Step ==
  /\ ~Routed' => inputs' = inputs
  /\ \A i \in 1..Len(inputs) :
       LET p == <<inputs[i].stream, inputs[i].source>>
       IN  ~HasInput(inputs', p[1], p[2])
             => /\ Routed'
                /\ \E k \in 1..Len(Segs(lastChunk')) :
                     /\ IsDeregister(Segs(lastChunk')[k])
                     /\ PairOf(Segs(lastChunk')[k]) = p

\* C14: an Input leaves the registry only in a step that routes a chunk
\* holding a terminated -input segment of the Input's pair; a step that
\* routes no chunk (a viewer connects or disconnects, joins or leaves a
\* channel, a TCP peer writes or ends its connection) leaves the registry
\* as it was, and so does a chunk of unknown-tag segments.
C14_RemovedOnlyByDeregister == [][C14_Step]_vars

\* A chunk of one unknown-tag segment that names the pair of an Input has
\* been routed and logged, and the registry still holds that Input.
C14_Witness ==
  /\ Routed
  /\ lastChunk = Bogus \o <<NUL>>
  /\ Len(logged) = 1
  /\ HasInput(inputs, PairOf(Bogus)[1], PairOf(Bogus)[2])

\* --------------------------------------------------------------- C15
\* C15: every event a viewer receives from a routed chunk comes from an
\* emit call of a handler, and at every such emit call the registry
\* mutation of the message was done: for a '+msg', '+ping' or '+input'
\* event the registry held the event's pair at the call, for a '-input'
\* event it did not.
C15_MutationBeforeBroadcast ==
  Routed =>
    /\ \A v \in Viewer : \A k \in 1..Len(inbox[v]) :
         \E n \in 1..Len(emitted) : emitted[n].event = inbox[v][k]
    /\ \A n \in 1..Len(emitted) :
         /\ IsAddEvent(emitted[n].event) => emitted[n].held
         /\ IsDeregEvent(emitted[n].event) => ~emitted[n].held

\* One chunk has added a pair and removed it again: a viewer received the
\* '+ping' of the add, emitted while the registry held the pair, and then
\* the '-input', emitted when it no longer did; the registry is without
\* the pair.
C15_Witness ==
  /\ Routed
  /\ lastChunk = MsgH1 \o <<NUL>> \o DelH1 \o <<NUL>>
  /\ ~HasInput(inputs, <<"app">>, <<"h1">>)
  /\ \E v \in connected :
       /\ Len(inbox[v]) >= 2
       /\ IsPingEvent(inbox[v][Len(inbox[v]) - 1])
       /\ IsDeregEvent(inbox[v][Len(inbox[v])])
  /\ emitted[1].held /\ ~emitted[Len(emitted)].held

\* --------------------------------------------------------------- C16
IsBlank(seg) == \A i \in 1..Len(seg) : seg[i] = SP

C16_Step ==
  Routed' =>
    LET term == Terminated(lastChunk')
    IN  /\ Len(dispatched') = Len(term) - Count(term, IsBlank)
        /\ \A k \in 1..Len(dispatched') : dispatched'[k] \notin {<<Empty>>, <<Blank>>}
        /\ (\A k \in 1..Len(term) : IsBlank(term[k]))
             => /\ inputs' = inputs
                /\ inbox' = NoInbox
                /\ emitted' = <<>>
                /\ logged' = <<>>
                /\ dispatched' = <<>>

\* C16: the forEach callback runs once per terminated segment that is not
\* empty and not all blanks, and never on an empty or blank one; so a
\* chunk whose terminated segments are all empty or blank changes no
\* Input, makes no emit call, sends no viewer an event and writes nothing
\* to the error log.
C16_BlankDiscarded == [][C16_Step]_vars

\* A chunk of a blank segment and an empty one, both terminated, has been
\* routed while a viewer was connected and the registry held Inputs.
C16_Witness ==
  /\ Routed
  /\ lastChunk = Blank \o <<NUL>> \o Empty \o <<NUL>>
  /\ connected # {}
  /\ Len(inputs) >= 2
  /\ dispatched = <<>>

\* --------------------------------------------------------------- C17
\* The emit calls the handler of a segment makes, in order, and what the
\* registry says of the segment's pair once the handler's own registry
\* call is done.
CallsOf(seg) ==
  IF IsNewMessage(seg) THEN <<MsgEventOf(seg), PingOf(seg)>>
  ELSE IF IsKnown(seg) THEN <<RegEventOf(seg)>>
  ELSE <<>>
HeldOf(seg) ==
  [k \in 1..Len(CallsOf(seg)) |-> ~IsDeregister(seg)]

\* C17: the emit calls of one run of broadcastMessage are the calls of the
\* first segment's handler, then those of the second's, and so on in chunk
\* order; at each call the registry shows the mutation of the call's own
\* segment, whatever later segments do to the same pair; so every
\* connected viewer receives the events the segments owe it in chunk
\* order.
C17_ChunkOrder ==
  Routed =>
    LET segs == Segs(lastChunk)
    IN  /\ [n \in 1..Len(emitted) |-> emitted[n].event]
             = Flatten([i \in 1..Len(segs) |-> CallsOf(segs[i])])
        /\ [n \in 1..Len(emitted) |-> emitted[n].held]
             = Flatten([i \in 1..Len(segs) |-> HeldOf(segs[i])])
        /\ \A v \in connected :
             inbox[v] = Flatten([i \in 1..Len(segs) |->
                                  IF IsKnown(segs[i]) THEN Owed(v, segs[i])
                                  ELSE <<>>])

\* A chunk that removes a pair and then sends a message for it has been
\* routed: a viewer joined to the pair's channel received the '-input',
\* then the message, then its '+ping'.
C17_Witness ==
  /\ Routed
  /\ lastChunk = DelH1 \o <<NUL>> \o MsgH1 \o <<NUL>>
  /\ \E v \in connected :
       /\ ChannelOf(MsgH1) \in rooms[v]
       /\ Len(inbox[v]) = Len(emitted)
       /\ IsDeregEvent(inbox[v][1])
       /\ IsMsgEvent(inbox[v][2])
  /\ ~emitted[1].held /\ emitted[2].held

\* --------------------------------------------------------------- C18
PairsOf(reg) == {<<reg[i].stream, reg[i].source>> : i \in 1..Len(reg)}

\* C18: what a connected viewer has learned from the '+input' events
\* replayed when it connected and from the '+input', '+ping' and '-input'
\* events it has received since is the set of pairs of the registry.
C18_ViewerKnowsRegistry ==
  \A v \in connected : learned[v] = PairsOf(inputs)

\* Two viewers that connected at different registries, one joined to a
\* channel and one to none, have both just received the events of a chunk
\* that added one pair and removed another, and the registry holds two
\* pairs.
C18_Witness ==
  /\ Routed
  /\ lastChunk = MsgH2 \o <<NUL>> \o DelH1 \o <<NUL>>
  /\ connected = Viewer
  /\ rooms["v1"] # {} /\ rooms["v2"] = {}
  /\ \A v \in Viewer : inbox[v] # <<>>
  /\ Cardinality(PairsOf(inputs)) = 2
  /\ \E a \in announced : a.stream = <<"app">> /\ a.source = <<"h1">>

\* --------------------------------------------------------------- C19
\* The place of the first event of seq that passes Test, 0 when none does.
FirstPlace(seq, Test(_)) ==
  IF \E k \in 1..Len(seq) : Test(seq[k])
  THEN CHOOSE k \in 1..Len(seq) :
         Test(seq[k]) /\ \A n \in 1..(k - 1) : ~Test(seq[n])
  ELSE 0

\* A step that routes a chunk changes no viewer's channel membership and
\* connects or disconnects none.
C19_Step ==
  Routed' => (rooms' = rooms /\ connected' = connected)

\* After such a step, with the memberships it has left as they were.
C19_Delivered ==
  Routed =>
    LET segs == Segs(lastChunk)
    IN  \A j \in 1..Len(segs) : \A v \in connected :
          LET p == PairOf(segs[j])
              Gone(e) == IsDeregEvent(e) /\ <<e.stream, e.source>> = p
              Mine(e) == e = MsgEventOf(segs[j])
          IN  (IsNewMessage(segs[j]) /\ ChannelOf(segs[j]) \in rooms[v])
                => /\ \E k \in 1..Len(inbox[v]) : Mine(inbox[v][k])
                   /\ (\E i \in 1..(j - 1) :
                         IsDeregister(segs[i]) /\ PairOf(segs[i]) = p)
                        => /\ FirstPlace(inbox[v], Gone) > 0
                           /\ \E k \in 1..Len(inbox[v]) :
                                /\ Mine(inbox[v][k])
                                /\ FirstPlace(inbox[v], Gone) < k
                   /\ ~IsDeregister(LastAbout(lastChunk, p))
                        => /\ Len(InputsOf(inputs, p)) = 1
                           /\ InputsOf(inputs, p)[1].inputName \in rooms[v]

\* C19: a step that routes a chunk changes no viewer's channel membership
\* and connects or disconnects none, whatever -input segments the chunk
\* holds; and a viewer joined to the channel of a pair before the chunk
\* receives the message of every +msg segment of that pair, after the
\* '-input' event when a -input of the pair comes earlier in the chunk,
\* and unless a -input of the pair follows, the registry then lists the
\* pair once, under the name of the channel the viewer has joined.
C19_MembershipSurvives == [][C19_Step]_vars /\ []C19_Delivered

\* A pair that a +input had announced was removed and then sent a message
\* by one chunk: the viewer joined to its channel received exactly the
\* '-input', the message and the '+ping', and the registry lists the pair
\* again under the channel's name.
C19_Witness ==
  /\ Routed
  /\ lastChunk = DelH1 \o <<NUL>> \o MsgH1 \o <<NUL>>
  /\ \E a \in announced : a.stream = <<"app">> /\ a.source = <<"h1">>
  /\ \E v \in connected :
       /\ Watched \in rooms[v]
       /\ inbox[v] = <<RegEventOf(DelH1), MsgEventOf(MsgH1), PingOf(MsgH1)>>
  /\ InputsOf(inputs, PairOf(MsgH1))[1].inputName = Watched

====
